---------------------------- MODULE Spec2Model ----------------------------
(***************************************************************************)
(* A model of the id-sdk math package: the Extent class (bounding boxes),  *)
(* the Viewport class (transform state and Mercator projection) and the    *)
(* polygon predicates of geom.                                             *)
(*                                                                         *)
(* Numbers.  A JavaScript number is modelled by an integer: a finite value *)
(* by itself, and Infinity, -Infinity, NaN and the value undefined by      *)
(* integers outside the finite range, with the IEEE-754 rules for them     *)
(* written out in the arithmetic operators below.                          *)
(*                                                                         *)
(* Units of the Viewport:                                                  *)
(*   degrees            1 unit = 1 degree                                  *)
(*   radians            1 unit = pi/360 rad   (Math.PI = 360 units)        *)
(*   scale k            1 unit = 64/pi        (zoom 0 = 128/pi = 2 units)  *)
(*   screen pixels      1 unit = 8/45 px      (= k unit * radian unit)     *)
(***************************************************************************)
EXTENDS Integers, Sequences, FiniteSets, TLC

VARIABLES
    this,         \* Extent under test: the receiver of the method call
    other,        \* Extent under test: the argument of the method call
    method,       \* Extent under test: the method last called on `this`
    result,       \* Extent under test: what that call returned or threw
    _transform,   \* Viewport: the Transform {x, y, k, r} it owns
    _dimensions,  \* Viewport: the Extent of the screen rectangle it owns
    call,         \* Viewport: the last call made on it, with its arguments
    ret,          \* Viewport: what that call returned
    poisoned,     \* Viewport: whether a NaN scale or a non-finite rotation was passed in
    outer,        \* geom: the polygon passed as `outer`
    inner,        \* geom: the polygon passed as `inner`
    geomCall,     \* geom: the function last called on them, with its mode
    geomRet       \* geom: what that call returned

extentVars == <<this, other, method, result>>
viewportVars == <<_transform, _dimensions, call, ret, poisoned>>
geomVars == <<outer, inner, geomCall, geomRet>>
vars == <<this, other, method, result, _transform, _dimensions, call, ret, poisoned,
          outer, inner, geomCall, geomRet>>

----------------------------------------------------------------------------
(* JavaScript numbers *)

Infinity == 2100000000
NaN == 2110000000
undefined == 2120000000

IsNaN(a) == a = NaN
IsFinite(a) == a > -Infinity /\ a < Infinity

Neg(a) == IF IsNaN(a) THEN NaN ELSE 0 - a

Add(a, b) ==
    IF IsNaN(a) \/ IsNaN(b) THEN NaN
    ELSE IF IsFinite(a) /\ IsFinite(b) THEN a + b
    ELSE IF IsFinite(a) THEN b
    ELSE IF IsFinite(b) THEN a
    ELSE IF a = b THEN a
    ELSE NaN

Sub(a, b) == Add(a, Neg(b))

Sign(a) == IF a > 0 THEN 1 ELSE IF a < 0 THEN -1 ELSE 0

Mul(a, b) ==
    IF IsNaN(a) \/ IsNaN(b) THEN NaN
    ELSE IF IsFinite(a) /\ IsFinite(b) THEN a * b
    ELSE IF a = 0 \/ b = 0 THEN NaN
    ELSE IF Sign(a) = Sign(b) THEN Infinity
    ELSE -Infinity

MathAbs(a) == IF IsNaN(a) THEN NaN ELSE IF a < 0 THEN 0 - a ELSE a

MathMin(a, b) ==
    IF IsNaN(a) \/ IsNaN(b) THEN NaN ELSE IF a < b THEN a ELSE b

MathMax(a, b) ==
    IF IsNaN(a) \/ IsNaN(b) THEN NaN ELSE IF a > b THEN a ELSE b

\* the comparison operators: every comparison with NaN is false
Le(a, b) == ~IsNaN(a) /\ ~IsNaN(b) /\ a <= b
Ge(a, b) == ~IsNaN(a) /\ ~IsNaN(b) /\ a >= b
StrictEq(a, b) == ~IsNaN(a) /\ ~IsNaN(b) /\ a = b

\* a / b; a finite quotient is rounded to the nearest unit
Div(a, b) ==
    IF IsNaN(a) \/ IsNaN(b) THEN NaN
    ELSE IF IsFinite(a) /\ IsFinite(b) THEN
        IF b = 0 THEN (IF a = 0 THEN NaN ELSE Sign(a) * Infinity)
        ELSE LET n == IF b < 0 THEN 0 - a ELSE a
                 d == IF b < 0 THEN 0 - b ELSE b
             IN  IF 2 * (n % d) >= d THEN (n \div d) + 1 ELSE n \div d
    ELSE IF IsFinite(a) THEN 0
    ELSE IF IsFinite(b) THEN (IF Sign(a) * Sign(b) < 0 THEN -Infinity ELSE Infinity)
    ELSE NaN

\* a % d for a positive finite d: the remainder has the sign of the dividend
Rem(a, d) ==
    IF IsNaN(a) \/ ~IsFinite(a) THEN NaN
    ELSE IF a < 0 THEN 0 - ((0 - a) % d) ELSE a % d

\* unary +: undefined becomes NaN
ToNumber(v) == IF v = undefined THEN NaN ELSE v

\* a || b on numbers: undefined, 0 and NaN are falsy
OrElse(a, b) == IF a = undefined \/ a = 0 \/ IsNaN(a) THEN b ELSE a

----------------------------------------------------------------------------
(* JavaScript values passed to and returned by the Extent methods *)

NoExtent == [min |-> <<0, 0>>, max |-> <<0, 0>>]

JsUndefined == [tag |-> "undefined", elems |-> <<>>, ext |-> NoExtent]
JsArray(s) == [tag |-> "array", elems |-> s, ext |-> NoExtent]
JsExtent(e) == [tag |-> "Extent", elems |-> <<>>, ext |-> e]

Truthy(v) == v.tag # "undefined"

ReturnExtent(e) == [tag |-> "Extent", ext |-> e, bool |-> FALSE, num |-> 0, den |-> 1]
ReturnBool(b) == [tag |-> "boolean", ext |-> NoExtent, bool |-> b, num |-> 0, den |-> 1]
ReturnNumber(n, d) == [tag |-> "number", ext |-> NoExtent, bool |-> FALSE, num |-> n, den |-> d]
TypeError == [tag |-> "TypeError", ext |-> NoExtent, bool |-> FALSE, num |-> 0, den |-> 1]
NoResult == [tag |-> "none", ext |-> NoExtent, bool |-> FALSE, num |-> 0, den |-> 1]

----------------------------------------------------------------------------
(* class Extent *)

\* the field initialisers: min = [Infinity, Infinity], max = [-Infinity, -Infinity]
EmptyExtent == [min |-> <<Infinity, Infinity>>, max |-> <<-Infinity, -Infinity>>]

\* constructor(otherOrMin?, max?)
NewExtent(otherOrMin, max) ==
    LET isExt == otherOrMin.tag = "Extent"
        min1 == IF isExt THEN JsArray(otherOrMin.ext.min) ELSE otherOrMin
        max1 == IF isExt THEN JsArray(otherOrMin.ext.max) ELSE max
        minOk == Truthy(min1) /\ Len(min1.elems) = 2
        max2 == IF minOk /\ ~Truthy(max1) THEN min1 ELSE max1
        maxOk == Truthy(max2) /\ Len(max2.elems) = 2
    IN  [min |-> IF minOk THEN <<min1.elems[1], min1.elems[2]>> ELSE EmptyExtent.min,
         max |-> IF maxOk THEN <<max2.elems[1], max2.elems[2]>> ELSE EmptyExtent.max]

\* `if (!(other instanceof Extent)) other = new Extent(other)`
AsExtent(o) == IF o.tag = "Extent" THEN o.ext ELSE NewExtent(o, JsUndefined)

equals(t, o) ==
    LET e == AsExtent(o)
    IN  /\ StrictEq(t.min[1], e.min[1])
        /\ StrictEq(t.min[2], e.min[2])
        /\ StrictEq(t.max[1], e.max[1])
        /\ StrictEq(t.max[2], e.max[2])

\* a slip: the new minimum taken with Math.max
extendWithMaxOfMins(t, o) ==
    LET e == AsExtent(o)
    IN  NewExtent(JsArray(<<MathMax(e.min[1], t.min[1]), MathMax(e.min[2], t.min[2])>>),
                  JsArray(<<MathMax(e.max[1], t.max[1]), MathMax(e.max[2], t.max[2])>>))

extend(t, o) ==
    LET e == AsExtent(o)
    IN  NewExtent(JsArray(<<MathMin(e.min[1], t.min[1]), MathMin(e.min[2], t.min[2])>>),
                  JsArray(<<MathMax(e.max[1], t.max[1]), MathMax(e.max[2], t.max[2])>>))

area(t) == MathAbs(Mul(Sub(t.max[1], t.min[1]), Sub(t.max[2], t.min[2])))

contains(t, o) ==
    LET e == AsExtent(o)
    IN  /\ Ge(e.min[1], t.min[1])
        /\ Ge(e.min[2], t.min[2])
        /\ Le(e.max[1], t.max[1])
        /\ Le(e.max[2], t.max[2])

\* a slip: extents that only touch do not count as intersecting
intersectsStrictly(t, o) ==
    LET e == AsExtent(o)
    IN  /\ e.min[1] < t.max[1] /\ ~IsNaN(e.min[1]) /\ ~IsNaN(t.max[1])
        /\ e.min[2] < t.max[2] /\ ~IsNaN(e.min[2]) /\ ~IsNaN(t.max[2])
        /\ e.max[1] > t.min[1] /\ ~IsNaN(e.max[1]) /\ ~IsNaN(t.min[1])
        /\ e.max[2] > t.min[2] /\ ~IsNaN(e.max[2]) /\ ~IsNaN(t.min[2])

intersects(t, o) ==
    LET e == AsExtent(o)
    IN  /\ Le(e.min[1], t.max[1])
        /\ Le(e.min[2], t.max[2])
        /\ Ge(e.max[1], t.min[1])
        /\ Ge(e.max[2], t.min[2])

\* a slip: the corners combined as extend combines them
intersectionAsUnion(t, o) ==
    IF ~intersects(t, o) THEN ReturnExtent(NewExtent(JsUndefined, JsUndefined))
    ELSE IF o.tag # "Extent" THEN TypeError
    ELSE ReturnExtent(
           NewExtent(JsArray(<<MathMin(o.ext.min[1], t.min[1]), MathMin(o.ext.min[2], t.min[2])>>),
                     JsArray(<<MathMax(o.ext.max[1], t.max[1]), MathMax(o.ext.max[2], t.max[2])>>)))

\* intersection(other) reads other.min and other.max without converting
\* `other` to an Extent: on an array or on undefined, other.min[0] is a
\* property read of undefined and throws a TypeError.
intersection(t, o) ==
    IF ~intersects(t, o) THEN ReturnExtent(NewExtent(JsUndefined, JsUndefined))
    ELSE IF o.tag # "Extent" THEN TypeError
    ELSE ReturnExtent(
           NewExtent(JsArray(<<MathMax(o.ext.min[1], t.min[1]), MathMax(o.ext.min[2], t.min[2])>>),
                     JsArray(<<MathMin(o.ext.max[1], t.max[1]), MathMin(o.ext.max[2], t.max[2])>>)))

\* a slip: the guard against infinite areas left out
percentContainedInUnguarded(t, o) ==
    LET e == JsExtent(AsExtent(o))
        i == intersection(t, e)
        a1 == area(i.ext)
        a2 == area(t)
    IN  IF i.tag = "TypeError" THEN TypeError
        ELSE IF a1 = 0 \/ a2 = 0 THEN ReturnNumber(0, 1)
        ELSE ReturnNumber(a1, a2)

\* percentContainedIn(other): the quotient a1 / a2 is kept as the pair
\* (numerator, denominator) of two finite non-zero areas
percentContainedIn(t, o) ==
    LET e == JsExtent(AsExtent(o))
        i == intersection(t, e)
        a1 == area(i.ext)
        a2 == area(t)
    IN  IF i.tag = "TypeError" THEN TypeError
        ELSE IF a1 = Infinity \/ a2 = Infinity \/ a1 = 0 \/ a2 = 0 THEN ReturnNumber(0, 1)
        ELSE ReturnNumber(a1, a2)

----------------------------------------------------------------------------
(* constants, number and vector helpers imported by Viewport *)

PI == 360
TAU == 720
HALF_PI == 180
DEG2RAD == 2
MIN_K == 2
MAX_K == 33554432
MIN_PHI == -170
MAX_PHI == 170

\* 256 / Math.PI, the scale of zoom 1
DefaultK == 4

numClamp(num, min, max) == MathMax(min, MathMin(num, max))

numWrap(num, min, max) ==
    LET d == max - min
    IN  Add(Rem(Add(Rem(Sub(num, min), d), d), d), min)

\* Math.cos and Math.sin, for the angles the model uses: multiples of a
\* quarter turn, where both are exact
Cos(a) == IF IsNaN(a) THEN NaN ELSE <<1, 0, -1, 0>>[((a % TAU) \div HALF_PI) + 1]
Sin(a) == IF IsNaN(a) THEN NaN ELSE <<0, 1, 0, -1>>[((a % TAU) \div HALF_PI) + 1]

vecRotate(a, angle, around) ==
    LET x == Sub(a[1], around[1])
        y == Sub(a[2], around[2])
    IN  <<Add(Sub(Mul(x, Cos(angle)), Mul(y, Sin(angle))), around[1]),
          Add(Add(Mul(x, Sin(angle)), Mul(y, Cos(angle))), around[2])>>

\* Math.log(Math.tan((HALF_PI + phi) / 2)) for 0 <= phi <= MAX_PHI, tabulated
\* to the nearest unit
MercatorTable == <<
      0, 1, 2, 3, 4, 5, 6, 7, 8, 9, 10, 11, 12, 13, 14, 15, 16, 17, 18, 19,
      20, 21, 22, 23, 24, 25, 26, 27, 28, 29, 30, 31, 32, 33, 35, 36, 37, 38, 39, 40,
      41, 42, 43, 44, 45, 46, 47, 48, 49, 51, 52, 53, 54, 55, 56, 57, 58, 60, 61, 62,
      63, 64, 65, 66, 68, 69, 70, 71, 72, 74, 75, 76, 77, 79, 80, 81, 82, 84, 85, 86,
      87, 89, 90, 91, 93, 94, 95, 97, 98, 100, 101, 102, 104, 105, 107, 108, 110, 111, 113, 114,
      116, 117, 119, 121, 122, 124, 125, 127, 129, 131, 132, 134, 136, 138, 139, 141, 143, 145, 147, 149,
      151, 153, 155, 157, 159, 161, 163, 166, 168, 170, 173, 175, 177, 180, 182, 185, 188, 190, 193, 196,
      199, 202, 205, 208, 211, 214, 218, 221, 225, 229, 232, 236, 240, 245, 249, 253, 258, 263, 268, 274,
      279, 285, 291, 298, 305, 312, 320, 329, 338, 348, 359 >>

\* 2 * Math.atan(Math.exp(y)) - HALF_PI for 0 <= y <= PI, tabulated to the
\* nearest unit
InverseMercatorTable == <<
      0, 1, 2, 3, 4, 5, 6, 7, 8, 9, 10, 11, 12, 13, 14, 15, 16, 17, 18, 19,
      20, 21, 22, 23, 24, 25, 26, 27, 28, 29, 30, 31, 32, 33, 34, 34, 35, 36, 37, 38,
      39, 40, 41, 42, 43, 44, 45, 46, 47, 48, 48, 49, 50, 51, 52, 53, 54, 55, 56, 57,
      57, 58, 59, 60, 61, 62, 63, 63, 64, 65, 66, 67, 68, 69, 69, 70, 71, 72, 73, 73,
      74, 75, 76, 77, 77, 78, 79, 80, 80, 81, 82, 83, 83, 84, 85, 86, 86, 87, 88, 89,
      89, 90, 91, 91, 92, 93, 93, 94, 95, 96, 96, 97, 98, 98, 99, 99, 100, 101, 101, 102,
      103, 103, 104, 105, 105, 106, 106, 107, 108, 108, 109, 109, 110, 110, 111, 112, 112, 113, 113, 114,
      114, 115, 115, 116, 116, 117, 117, 118, 119, 119, 120, 120, 121, 121, 122, 122, 122, 123, 123, 124,
      124, 125, 125, 126, 126, 127, 127, 128, 128, 128, 129, 129, 130, 130, 131, 131, 131, 132, 132, 133,
      133, 133, 134, 134, 135, 135, 135, 136, 136, 136, 137, 137, 138, 138, 138, 139, 139, 139, 140, 140,
      140, 141, 141, 141, 142, 142, 142, 143, 143, 143, 144, 144, 144, 145, 145, 145, 145, 146, 146, 146,
      147, 147, 147, 147, 148, 148, 148, 149, 149, 149, 149, 150, 150, 150, 150, 151, 151, 151, 151, 152,
      152, 152, 152, 153, 153, 153, 153, 154, 154, 154, 154, 154, 155, 155, 155, 155, 156, 156, 156, 156,
      156, 157, 157, 157, 157, 157, 158, 158, 158, 158, 158, 159, 159, 159, 159, 159, 159, 160, 160, 160,
      160, 160, 160, 161, 161, 161, 161, 161, 161, 162, 162, 162, 162, 162, 162, 163, 163, 163, 163, 163,
      163, 163, 164, 164, 164, 164, 164, 164, 164, 165, 165, 165, 165, 165, 165, 165, 165, 166, 166, 166,
      166, 166, 166, 166, 166, 167, 167, 167, 167, 167, 167, 167, 167, 167, 168, 168, 168, 168, 168, 168,
      168, 168, 168, 169, 169, 169, 169, 169, 169, 169, 169, 169, 169, 169, 170, 170, 170, 170, 170, 170,
      170 >>

LogTanHalf(phi) ==
    IF IsNaN(phi) THEN NaN
    ELSE IF phi < 0 THEN 0 - MercatorTable[(0 - phi) + 1]
    ELSE MercatorTable[phi + 1]

TwoAtanExpMinusHalfPi(y) ==
    IF IsNaN(y) THEN NaN
    ELSE IF y < 0 THEN 0 - InverseMercatorTable[(0 - y) + 1]
    ELSE InverseMercatorTable[y + 1]

----------------------------------------------------------------------------
(* class Viewport *)

\* what a Viewport method returns
NoTransform == [x |-> 0, y |-> 0, k |-> 0, r |-> 0]
NoVec == <<0, 0>>
ReturnThis == [tag |-> "this", vec |-> NoVec, num |-> 0, t |-> NoTransform, ext |-> NoExtent, alias |-> FALSE]
ReturnVec(v) == [tag |-> "Vec2", vec |-> v, num |-> 0, t |-> NoTransform, ext |-> NoExtent, alias |-> FALSE]
ReturnNum(n) == [tag |-> "number", vec |-> NoVec, num |-> n, t |-> NoTransform, ext |-> NoExtent, alias |-> FALSE]
\* a Transform object; alias says whether it is the Viewport's own object
ReturnTransform(t, own) == [tag |-> "Transform", vec |-> NoVec, num |-> 0, t |-> t, ext |-> NoExtent, alias |-> own]
\* [min, max]: a new array holding the Extent's own min and max arrays
ReturnCorners(e) == [tag |-> "corners", vec |-> NoVec, num |-> 0, t |-> NoTransform, ext |-> e, alias |-> TRUE]
ReturnNothing == [tag |-> "none", vec |-> NoVec, num |-> 0, t |-> NoTransform, ext |-> NoExtent, alias |-> FALSE]

\* an argument that was not passed; an object argument with none of its fields
NoObject == [x |-> undefined, y |-> undefined, k |-> undefined, r |-> undefined]
NoArgument == [tag |-> "undefined", vec |-> NoVec, num |-> undefined, t |-> NoObject, ext |-> NoExtent]
ArgVec(v) == [tag |-> "Vec2", vec |-> v, num |-> undefined, t |-> NoObject, ext |-> NoExtent]
ArgNum(n) == [tag |-> "number", vec |-> NoVec, num |-> n, t |-> NoObject, ext |-> NoExtent]
ArgObject(o) == [tag |-> "object", vec |-> NoVec, num |-> undefined, t |-> o, ext |-> NoExtent]
ArgCorners(e) == [tag |-> "corners", vec |-> NoVec, num |-> undefined, t |-> NoObject, ext |-> e]

\* constructor(transform?, dimensions?): `transform?.x` of an absent transform
\* is undefined, as is an absent field
NewViewport(transform_, dimensions_) ==
    [transform |->
        [x |-> OrElse(transform_.x, 0),
         y |-> OrElse(transform_.y, 0),
         k |-> numClamp(OrElse(transform_.k, DefaultK), MIN_K, MAX_K),
         r |-> numWrap(OrElse(transform_.r, 0), 0, TAU)],
     dimensions |->
        IF Truthy(dimensions_) THEN NewExtent(dimensions_, JsUndefined)
        ELSE NewExtent(JsArray(<<0, 0>>), JsArray(<<0, 0>>))]

\* the screen rectangles of the model have even coordinates, so that the
\* halves are whole units
center(e) == <<Div(Add(e.min[1], e.max[1]), 2), Div(Add(e.min[2], e.max[2]), 2)>>

\* `includeRotation && r`: 0 and NaN are falsy
Rotates(includeRotation, r) == includeRotation /\ r # 0 /\ ~IsNaN(r)

project(T, D, loc, includeRotation) ==
    LET lambda == Mul(loc[1], DEG2RAD)
        phi == numClamp(Mul(loc[2], DEG2RAD), MIN_PHI, MAX_PHI)
        mercatorX == lambda
        mercatorY == LogTanHalf(phi)
        point == <<Add(Mul(mercatorX, T.k), T.x), Sub(T.y, Mul(mercatorY, T.k))>>
    IN  IF Rotates(includeRotation, T.r) THEN vecRotate(point, T.r, center(D))
        ELSE point

\* a slip: the point rotated by r again instead of by -r
unprojectRotatingForward(T, D, point_, includeRotation) ==
    LET point == IF Rotates(includeRotation, T.r)
                 THEN vecRotate(point_, T.r, center(D))
                 ELSE point_
        mercatorX == Div(Sub(point[1], T.x), T.k)
        mercatorY == numClamp(Div(Sub(T.y, point[2]), T.k), 0 - PI, PI)
        lambda == mercatorX
        phi == TwoAtanExpMinusHalfPi(mercatorY)
    IN  <<Div(lambda, DEG2RAD), Div(phi, DEG2RAD)>>

unproject(T, D, point_, includeRotation) ==
    LET point == IF Rotates(includeRotation, T.r)
                 THEN vecRotate(point_, Neg(T.r), center(D))
                 ELSE point_
        mercatorX == Div(Sub(point[1], T.x), T.k)
        mercatorY == numClamp(Div(Sub(T.y, point[2]), T.k), 0 - PI, PI)
        lambda == mercatorX
        phi == TwoAtanExpMinusHalfPi(mercatorY)
    IN  <<Div(lambda, DEG2RAD), Div(phi, DEG2RAD)>>     \* RAD2DEG = 1 / DEG2RAD

\* each combined getter/setter gives the Transform (or dimensions) it leaves
\* and the value it returns
translate(T, val) ==
    IF val.tag = "undefined" THEN [transform |-> T, ret |-> ReturnVec(<<T.x, T.y>>)]
    ELSE [transform |-> [T EXCEPT !.x = ToNumber(val.vec[1]), !.y = ToNumber(val.vec[2])],
          ret |-> ReturnThis]

\* a slip: the scale stored without numClamp
scaleUnclamped(T, val) ==
    IF val.tag = "undefined" THEN [transform |-> T, ret |-> ReturnNum(T.k)]
    ELSE [transform |-> [T EXCEPT !.k = ToNumber(val.num)], ret |-> ReturnThis]

scale(T, val) ==
    IF val.tag = "undefined" THEN [transform |-> T, ret |-> ReturnNum(T.k)]
    ELSE [transform |-> [T EXCEPT !.k = numClamp(ToNumber(val.num), MIN_K, MAX_K)],
          ret |-> ReturnThis]

rotate(T, val) ==
    IF val.tag = "undefined" THEN [transform |-> T, ret |-> ReturnNum(T.r)]
    ELSE [transform |-> [T EXCEPT !.r = numWrap(ToNumber(val.num), 0, TAU)],
          ret |-> ReturnThis]

\* a slip: the getter returns this._transform itself, not a copy
transformReturningOwn(T, obj) ==
    IF obj.tag = "undefined" THEN [transform |-> T, ret |-> ReturnTransform(T, TRUE)]
    ELSE [transform |->
            [x |-> IF obj.t.x # undefined THEN ToNumber(obj.t.x) ELSE T.x,
             y |-> IF obj.t.y # undefined THEN ToNumber(obj.t.y) ELSE T.y,
             k |-> IF obj.t.k # undefined THEN numClamp(ToNumber(obj.t.k), MIN_K, MAX_K) ELSE T.k,
             r |-> IF obj.t.r # undefined THEN numWrap(ToNumber(obj.t.r), 0, TAU) ELSE T.r],
          ret |-> ReturnThis]

\* a slip: every field assigned, whether obj defines it or not
transformAssigningAll(T, obj) ==
    IF obj.tag = "undefined" THEN [transform |-> T, ret |-> ReturnTransform(T, FALSE)]
    ELSE [transform |->
            [x |-> ToNumber(obj.t.x),
             y |-> ToNumber(obj.t.y),
             k |-> numClamp(ToNumber(obj.t.k), MIN_K, MAX_K),
             r |-> numWrap(ToNumber(obj.t.r), 0, TAU)],
          ret |-> ReturnThis]

transform(T, obj) ==
    IF obj.tag = "undefined" THEN [transform |-> T, ret |-> ReturnTransform(T, FALSE)]
    ELSE [transform |->
            [x |-> IF obj.t.x # undefined THEN ToNumber(obj.t.x) ELSE T.x,
             y |-> IF obj.t.y # undefined THEN ToNumber(obj.t.y) ELSE T.y,
             k |-> IF obj.t.k # undefined THEN numClamp(ToNumber(obj.t.k), MIN_K, MAX_K) ELSE T.k,
             r |-> IF obj.t.r # undefined THEN numWrap(ToNumber(obj.t.r), 0, TAU) ELSE T.r],
          ret |-> ReturnThis]

dimensions(D, val) ==
    IF val.tag = "undefined" THEN [dimensions |-> D, ret |-> ReturnCorners(D)]
    ELSE [dimensions |-> [min |-> val.ext.min, max |-> val.ext.max], ret |-> ReturnThis]

----------------------------------------------------------------------------
(* geom: the polygon predicates.  A polygon is a closed ring, a sequence of
   points whose last point repeats the first. *)

vecSubtract(a, b) == <<a[1] - b[1], a[2] - b[2]>>
vecCross(a, b) == a[1] * b[2] - a[2] * b[1]

\* whether the ray from `point` crosses the polygon edge from vertex j to
\* vertex i:  (yi > y) # (yj > y)  and  x < (xj - xi) * (y - yi) / (yj - yi) + xi
RayCrossesEdge(point, pi, pj) ==
    /\ (pi[2] > point[2]) # (pj[2] > point[2])
    /\ IF pj[2] - pi[2] > 0
       THEN (point[1] - pi[1]) * (pj[2] - pi[2]) < (pj[1] - pi[1]) * (point[2] - pi[2])
       ELSE (point[1] - pi[1]) * (pj[2] - pi[2]) > (pj[1] - pi[1]) * (point[2] - pi[2])

\* the loop of pointInPolygon from vertex i on: `inside` flips at each crossing
RECURSIVE PointInPolygonFrom(_, _, _, _)
PointInPolygonFrom(point, polygon, i, inside) ==
    IF i > Len(polygon) THEN inside
    ELSE LET j == IF i = 1 THEN Len(polygon) ELSE i - 1
         IN  PointInPolygonFrom(point, polygon, i + 1,
                 IF RayCrossesEdge(point, polygon[i], polygon[j]) THEN ~inside ELSE inside)

pointInPolygon(point, polygon) == PointInPolygonFrom(point, polygon, 1, FALSE)

NullPoint == [null |-> TRUE, x |-> 0, y |-> 0, den |-> 1]

\* a slip: the parameter of the second segment is not tested
lineIntersectionOfLineAndSegment(a, b) ==
    LET p == a[1]
        q == b[1]
        r == vecSubtract(a[2], a[1])
        s == vecSubtract(b[2], b[1])
        denominator == vecCross(r, s)
        tNumerator == vecCross(vecSubtract(q, p), s)
        within(n) == IF denominator > 0 THEN 0 <= n /\ n <= denominator
                     ELSE denominator <= n /\ n <= 0
    IN  IF denominator = 0 THEN NullPoint
        ELSE IF within(tNumerator)
             THEN [null |-> FALSE,
                   x |-> p[1] * denominator + tNumerator * r[1],
                   y |-> p[2] * denominator + tNumerator * r[2],
                   den |-> denominator]
             ELSE NullPoint

\* lineIntersection(a, b) of two segments: null when they are parallel or when
\* the parameter of either segment is outside [0, 1]; otherwise the point
\* p + t * r, kept as (x / den, y / den)
lineIntersection(a, b) ==
    LET p == a[1]
        q == b[1]
        r == vecSubtract(a[2], a[1])
        s == vecSubtract(b[2], b[1])
        denominator == vecCross(r, s)
        uNumerator == vecCross(vecSubtract(q, p), r)
        tNumerator == vecCross(vecSubtract(q, p), s)
        within(n) == IF denominator > 0 THEN 0 <= n /\ n <= denominator
                     ELSE denominator <= n /\ n <= 0
    IN  IF denominator = 0 THEN NullPoint
        ELSE IF within(tNumerator) /\ within(uNumerator)
             THEN [null |-> FALSE,
                   x |-> p[1] * denominator + tNumerator * r[1],
                   y |-> p[2] * denominator + tNumerator * r[2],
                   den |-> denominator]
             ELSE NullPoint

\* whether some segment of path1 meets some segment of path2, from segment i
\* of path1 and segment j of path2 on
RECURSIVE PathHasIntersectionsFrom(_, _, _, _)
PathHasIntersectionsFrom(path1, path2, i, j) ==
    IF i > Len(path1) - 1 THEN FALSE
    ELSE IF j > Len(path2) - 1 THEN PathHasIntersectionsFrom(path1, path2, i + 1, 1)
    ELSE IF ~lineIntersection(<<path1[i], path1[i + 1]>>, <<path2[j], path2[j + 1]>>).null
         THEN TRUE
         ELSE PathHasIntersectionsFrom(path1, path2, i, j + 1)

pathHasIntersections(path1, path2) == PathHasIntersectionsFrom(path1, path2, 1, 1)

\* inner.some(point => pointInPolygon(point, outer)), from vertex i on
RECURSIVE SomePointInPolygonFrom(_, _, _)
SomePointInPolygonFrom(polygon, points, i) ==
    IF i > Len(points) THEN FALSE
    ELSE IF pointInPolygon(points[i], polygon) THEN TRUE
    ELSE SomePointInPolygonFrom(polygon, points, i + 1)

\* a slip: the strict mode tests the edges only
polygonIntersectsPolygonEdgesOnly(outer_, inner_, strict) ==
    IF strict THEN pathHasIntersections(outer_, inner_)
    ELSE SomePointInPolygonFrom(outer_, inner_, 1)

\* polygonIntersectsPolygon(outer, inner, strict = false)
polygonIntersectsPolygon(outer_, inner_, strict) ==
    SomePointInPolygonFrom(outer_, inner_, 1)
        \/ (strict /\ pathHasIntersections(outer_, inner_))

----------------------------------------------------------------------------
(* The polygon predicates called on bounded inputs *)

GridMax == 2

\* a grid of three rows
Grid == {<<x, y>> : x \in 0..GridMax, y \in {0, 1, 2}}

\* the place of a grid point in the column-by-column order of the grid
GridOrder(pt) == pt[1] * 3 + pt[2]

\* the triangles on the grid, each once: closed rings of three points that
\* are not on one line
Triangles ==
    {<<t[1], t[2], t[3], t[1]>> : t \in
        {t \in Grid \X Grid \X Grid :
            /\ GridOrder(t[1]) < GridOrder(t[2])
            /\ GridOrder(t[2]) < GridOrder(t[3])
            /\ vecCross(vecSubtract(t[2], t[1]), vecSubtract(t[3], t[1])) # 0}}

\* the polygons of the geomPolygonIntersectsPolygon tests
TestSquare == <<<<0, 0>>, <<0, 3>>, <<3, 3>>, <<3, 0>>, <<0, 0>>>>
TestContained == <<<<1, 1>>, <<1, 2>>, <<2, 2>>, <<2, 1>>, <<1, 1>>>>
TestPartial == <<<<-1, -1>>, <<1, 2>>, <<2, 2>>, <<2, 1>>, <<1, 1>>>>
TestPassThrough == <<<<1, -1>>, <<1, 4>>, <<2, 4>>, <<2, -1>>, <<1, -1>>>>
TestDisjoint == <<<<-1, -1>>, <<-1, -2>>, <<-2, -2>>, <<-2, -1>>, <<-1, -1>>>>

Polygons ==
    Triangles \cup {TestSquare, TestContained, TestPartial, TestPassThrough, TestDisjoint}

\* the geom functions that nothing else calls
GeomIdle ==
    /\ outer = <<>>
    /\ inner = <<>>
    /\ geomCall = [fn |-> "none", strict |-> FALSE]
    /\ geomRet = FALSE

\* the Viewport that the geom functions never touch
ViewportIdle ==
    /\ _transform = NoTransform
    /\ _dimensions = NoExtent
    /\ call = [op |-> "none", arg |-> NoArgument, includeRotation |-> FALSE,
               roundTrip |-> FALSE, loc |-> NoVec]
    /\ ret = ReturnNothing
    /\ poisoned = FALSE

\* the Extent under test that the Viewport and geom never touch
ExtentIdle ==
    /\ this = NoExtent
    /\ other = JsUndefined
    /\ method = "none"
    /\ result = NoResult

GeomInit ==
    /\ outer \in Polygons
    /\ inner \in Polygons
    /\ geomCall = [fn |-> "none", strict |-> FALSE]
    /\ geomRet = FALSE
    /\ ExtentIdle
    /\ ViewportIdle

\* strict is omitted (false by default), false or true
CallPolygonIntersectsPolygon ==
    \E strict \in BOOLEAN :
        /\ geomCall' = [fn |-> "polygonIntersectsPolygon", strict |-> strict]
        /\ geomRet' = polygonIntersectsPolygon(outer, inner, strict)
        /\ UNCHANGED <<outer, inner>>
        /\ UNCHANGED <<extentVars, viewportVars>>

GeomNext == CallPolygonIntersectsPolygon

SpecGeom == GeomInit /\ [][GeomNext]_vars

----------------------------------------------------------------------------
(* lineIntersection called on bounded inputs.  Here `outer` holds the segment
   a, `inner` the segment b and geomRet the point returned or null. *)

\* the segments of the geomLineIntersection tests
TestSegments ==
    {<<<<0, 0>>, <<10, 0>>>>, <<<<-5, 0>>, <<5, 0>>>>,
     <<<<5, 0>>, <<10, 0>>>>, <<<<-10, 0>>, <<-5, 0>>>>,
     <<<<0, 5>>, <<10, 5>>>>,
     <<<<5, 10>>, <<5, -10>>>>, <<<<-5, 10>>, <<-5, -10>>>>}

\* every pair of end points on the grid, a segment of no length included
Segments == {<<p, q>> : p \in Grid, q \in Grid} \cup TestSegments

NoCall == [null |-> TRUE, x |-> 0, y |-> 0, den |-> 0]

LineInit ==
    /\ outer \in Segments
    /\ inner \in Segments
    /\ geomCall = [fn |-> "none", strict |-> FALSE]
    /\ geomRet = NoCall
    /\ ExtentIdle
    /\ ViewportIdle

CallLineIntersection ==
    /\ geomCall' = [fn |-> "lineIntersection", strict |-> FALSE]
    /\ geomRet' = lineIntersection(outer, inner)
    /\ UNCHANGED <<outer, inner>>
    /\ UNCHANGED <<extentVars, viewportVars>>

LineNext == CallLineIntersection

SpecLine == LineInit /\ [][LineNext]_vars

----------------------------------------------------------------------------
(* The Extent methods called on bounded inputs *)

MaxCoord == 2

Coords == 0..MaxCoord
Points == {<<x, y>> : x \in Coords, y \in Coords}

\* every Extent the constructor builds from finite points, and the empty one
Extents == {NewExtent(JsArray(p), JsArray(q)) : p \in Points, q \in Points}
             \cup {NewExtent(JsArray(p), JsUndefined) : p \in Points}
             \cup {NewExtent(JsUndefined, JsUndefined)}

\* the malformed arguments: undefined and arrays of the wrong length
Malformed == {JsUndefined, JsArray(<<>>), JsArray(<<1>>), JsArray(<<1, 2, 0>>)}

Arguments == {JsExtent(e) : e \in Extents} \cup {JsArray(p) : p \in Points} \cup Malformed

ExtentInit ==
    /\ this \in Extents
    /\ other \in Arguments
    /\ method = "new"
    /\ result = NoResult
    /\ ViewportIdle
    /\ GeomIdle

CallEquals ==
    /\ method' = "equals"
    /\ result' = ReturnBool(equals(this, other))
    /\ UNCHANGED <<this, other>>
    /\ UNCHANGED <<viewportVars, geomVars>>

CallExtend ==
    /\ method' = "extend"
    /\ result' = ReturnExtent(extend(this, other))
    /\ UNCHANGED <<this, other>>
    /\ UNCHANGED <<viewportVars, geomVars>>

CallArea ==
    /\ method' = "area"
    /\ result' = ReturnNumber(area(this), 1)
    /\ UNCHANGED <<this, other>>
    /\ UNCHANGED <<viewportVars, geomVars>>

CallContains ==
    /\ method' = "contains"
    /\ result' = ReturnBool(contains(this, other))
    /\ UNCHANGED <<this, other>>
    /\ UNCHANGED <<viewportVars, geomVars>>

CallIntersects ==
    /\ method' = "intersects"
    /\ result' = ReturnBool(intersects(this, other))
    /\ UNCHANGED <<this, other>>
    /\ UNCHANGED <<viewportVars, geomVars>>

CallIntersection ==
    /\ method' = "intersection"
    /\ result' = intersection(this, other)
    /\ UNCHANGED <<this, other>>
    /\ UNCHANGED <<viewportVars, geomVars>>

CallPercentContainedIn ==
    /\ method' = "percentContainedIn"
    /\ result' = percentContainedIn(this, other)
    /\ UNCHANGED <<this, other>>
    /\ UNCHANGED <<viewportVars, geomVars>>

ExtentNext ==
    \/ CallEquals
    \/ CallExtend
    \/ CallArea
    \/ CallContains
    \/ CallIntersects
    \/ CallIntersection
    \/ CallPercentContainedIn

SpecExtent == ExtentInit /\ [][ExtentNext]_vars

----------------------------------------------------------------------------
(* Viewport.extent and the Extent methods it calls *)

\* Extent.polygon(): the ring min, (min.x, max.y), max, (max.x, min.y), min
polygon(t) ==
    <<<<t.min[1], t.min[2]>>,
      <<t.min[1], t.max[2]>>,
      <<t.max[1], t.max[2]>>,
      <<t.max[1], t.min[2]>>,
      <<t.min[1], t.min[2]>>>>

\* Extent.extendSelf(other): extend, with the receiver taking the result
extendSelf(t, o) == extend(t, o)

ReturnExt(e) == [tag |-> "Extent", vec |-> NoVec, num |-> 0, t |-> NoTransform, ext |-> e, alias |-> FALSE]

\* the loop of extent() from vertex i on, the last vertex left out
RECURSIVE ExtentFrom(_, _, _, _, _)
ExtentFrom(T, D, ring, i, e) ==
    IF i > Len(ring) - 1 THEN e
    ELSE ExtentFrom(T, D, ring, i + 1,
                    extendSelf(e, JsArray(unproject(T, D, ring[i], TRUE))))

\* a slip: the corners unprojected without the rotation
extentUnrotated(T, D) ==
    LET ring == polygon(D)
        e1 == extendSelf(NewExtent(JsUndefined, JsUndefined),
                         JsArray(unproject(T, D, ring[1], FALSE)))
        e2 == extendSelf(e1, JsArray(unproject(T, D, ring[2], FALSE)))
        e3 == extendSelf(e2, JsArray(unproject(T, D, ring[3], FALSE)))
    IN  extendSelf(e3, JsArray(unproject(T, D, ring[4], FALSE)))

extent(T, D) == ExtentFrom(T, D, polygon(D), 1, NewExtent(JsUndefined, JsUndefined))

----------------------------------------------------------------------------
(* The Viewport methods called on bounded inputs *)

\* the largest magnitude of a finite number of the model
MaxFinite == 2000000000

TranslateValues == {<<0, 0>>, <<90, -40>>}
ScaleValues == {0, 3, MAX_K + 5, NaN, -Infinity}
RotateValues == {TAU, 0 - HALF_PI, TAU + HALF_PI, NaN, Infinity}

\* Transform-like objects: any of the fields may be missing
TransformObjects ==
    {[NoObject EXCEPT !.k = k, !.r = r] :
        k \in {undefined, 0, MAX_K + 5, NaN}, r \in {undefined, 0 - HALF_PI, Infinity}}
    \cup {[NoObject EXCEPT !.x = 0, !.r = 0],
          [NoObject EXCEPT !.y = -40],
          [x |-> 90, y |-> -40, k |-> 3, r |-> HALF_PI]}

ScreenRectangles == {[min |-> <<-100, -60>>, max |-> <<100, 60>>]}

ConstructorDimensions ==
    {JsUndefined, JsExtent(EmptyExtent), JsExtent([min |-> <<0, 0>>, max |-> <<400, 200>>])}

\* (lon, lat) in degrees; 89 is beyond the Mercator range
Locations == {<<lon, lat>> : lon \in {-180, 10}, lat \in {-85, 25, 89}}

ScreenPoints == {<<90, -40>>, <<400, 200>>}

Call(op, arg) ==
    [op |-> op, arg |-> arg, includeRotation |-> FALSE, roundTrip |-> FALSE, loc |-> NoVec]

\* a scale or rotation that the number helpers cannot constrain
PoisonsScale(v) == v # undefined /\ IsNaN(ToNumber(v))
PoisonsRotation(v) == v # undefined /\ ~IsFinite(ToNumber(v))

ViewportInit ==
    /\ ExtentIdle
    /\ GeomIdle
    /\ \E t \in TransformObjects \cup {NoObject}, d \in ConstructorDimensions :
          LET v == NewViewport(t, d)
          IN  /\ _transform = v.transform
              /\ _dimensions = v.dimensions
              /\ call = Call("new", ArgObject(t))
              /\ poisoned = (t.r # undefined /\ ~IsNaN(t.r) /\ ~IsFinite(t.r))
    /\ ret = ReturnNothing

\* the products of project stay within the finite numbers of the model
ProjectFits(T, loc) ==
    LET lambda == MathAbs(Mul(loc[1], DEG2RAD))
        mercatorY == MathAbs(LogTanHalf(numClamp(Mul(loc[2], DEG2RAD), MIN_PHI, MAX_PHI)))
    IN  IsFinite(T.k) =>
            /\ lambda <= MaxFinite \div T.k
            /\ mercatorY <= MaxFinite \div T.k

CallProject ==
    \E loc \in Locations, includeRotation \in BOOLEAN :
        /\ ProjectFits(_transform, loc)
        /\ call' = [Call("project", ArgVec(loc)) EXCEPT !.includeRotation = includeRotation]
        /\ ret' = ReturnVec(project(_transform, _dimensions, loc, includeRotation))
        /\ UNCHANGED <<_transform, _dimensions, poisoned>>
        /\ UNCHANGED <<extentVars, geomVars>>

\* unproject is called on a screen point, or on the point project just returned
CallUnproject ==
    \E point \in ScreenPoints \cup (IF call.op = "project" THEN {ret.vec} ELSE {}),
       includeRotation \in BOOLEAN :
        /\ call' = [Call("unproject", ArgVec(point)) EXCEPT
                       !.includeRotation = includeRotation,
                       !.roundTrip = /\ call.op = "project"
                                     /\ point = ret.vec
                                     /\ includeRotation = call.includeRotation,
                       !.loc = IF call.op = "project" /\ point = ret.vec
                               THEN call.arg.vec ELSE NoVec]
        /\ ret' = ReturnVec(unproject(_transform, _dimensions, point, includeRotation))
        /\ UNCHANGED <<_transform, _dimensions, poisoned>>
        /\ UNCHANGED <<extentVars, geomVars>>

CallTranslate ==
    \E val \in {NoArgument} \cup {ArgVec(v) : v \in TranslateValues} :
        LET done == translate(_transform, val)
        IN  /\ _transform' = done.transform
            /\ ret' = done.ret
            /\ call' = Call("translate", val)
            /\ UNCHANGED <<_dimensions, poisoned>>
            /\ UNCHANGED <<extentVars, geomVars>>

CallScale ==
    \E val \in {NoArgument} \cup {ArgNum(n) : n \in ScaleValues} :
        LET done == scale(_transform, val)
        IN  /\ _transform' = done.transform
            /\ ret' = done.ret
            /\ call' = Call("scale", val)
            /\ poisoned' = (poisoned \/ PoisonsScale(val.num))
            /\ UNCHANGED _dimensions
            /\ UNCHANGED <<extentVars, geomVars>>

CallRotate ==
    \E val \in {NoArgument} \cup {ArgNum(n) : n \in RotateValues} :
        LET done == rotate(_transform, val)
        IN  /\ _transform' = done.transform
            /\ ret' = done.ret
            /\ call' = Call("rotate", val)
            /\ poisoned' = (poisoned \/ PoisonsRotation(val.num))
            /\ UNCHANGED _dimensions
            /\ UNCHANGED <<extentVars, geomVars>>

CallTransform ==
    \E obj \in {NoArgument} \cup {ArgObject(o) : o \in TransformObjects} :
        LET done == transform(_transform, obj)
        IN  /\ _transform' = done.transform
            /\ ret' = done.ret
            /\ call' = Call("transform", obj)
            /\ poisoned' = (poisoned \/ PoisonsScale(obj.t.k) \/ PoisonsRotation(obj.t.r))
            /\ UNCHANGED _dimensions
            /\ UNCHANGED <<extentVars, geomVars>>

CallDimensions ==
    \E val \in {NoArgument} \cup {ArgCorners(e) : e \in ScreenRectangles} :
        LET done == dimensions(_dimensions, val)
        IN  /\ _dimensions' = done.dimensions
            /\ ret' = done.ret
            /\ call' = Call("dimensions", val)
            /\ UNCHANGED <<_transform, poisoned>>
            /\ UNCHANGED <<extentVars, geomVars>>

CallExtent ==
    /\ call' = Call("extent", NoArgument)
    /\ ret' = ReturnExt(extent(_transform, _dimensions))
    /\ UNCHANGED <<_transform, _dimensions, poisoned>>
    /\ UNCHANGED <<extentVars, geomVars>>

\* the caller writes to the k field of the Transform object that transform()
\* returned; the write reaches the Viewport when that object is its own
WriteToReturned ==
    /\ ret.tag = "Transform"
    /\ call.op # "write"
    /\ call' = Call("write", NoArgument)
    /\ ret' = [ret EXCEPT !.t.k = 1]
    /\ _transform' = IF ret.alias THEN [_transform EXCEPT !.k = 1] ELSE _transform
    /\ UNCHANGED <<_dimensions, poisoned>>
    /\ UNCHANGED <<extentVars, geomVars>>

ViewportNext ==
    \/ CallProject
    \/ CallUnproject
    \/ CallTranslate
    \/ CallScale
    \/ CallRotate
    \/ CallTransform
    \/ CallDimensions
    \/ CallExtent
    \/ WriteToReturned

SpecViewport == ViewportInit /\ [][ViewportNext]_vars

----------------------------------------------------------------------------
(* Properties of Extent *)

\* min <= max componentwise
IsValidExtent(e) == Le(e.min[1], e.max[1]) /\ Le(e.min[2], e.max[2])

\* C3: the empty extent is a two-sided identity of extend: for every extent
\* e, empty.extend(e).equals(e) and e.extend(empty).equals(e).
C3_EmptyIsIdentityOfExtend ==
    (method = "extend" /\ other.tag = "Extent") =>
        /\ this = EmptyExtent => equals(result.ext, other)
        /\ other.ext = EmptyExtent => equals(result.ext, JsExtent(this))

C3_Witness ==
    /\ method = "extend"
    /\ other.tag = "Extent"
    /\ this = EmptyExtent
    /\ other.ext.min = <<1, 0>>
    /\ other.ext.max = <<2, 2>>
    /\ result.ext = other.ext

\* C4 as stated: for all extents a and b, a.contains(b) implies
\* a.intersection(b).equals(b).
C4_ContainsImpliesIntersectionEquals ==
    (method = "intersection" /\ other.tag = "Extent" /\ contains(this, other)) =>
        result.tag = "Extent" /\ equals(result.ext, other)

\* C4 amended: for all extents a and every extent b that is empty or has
\* min <= max componentwise, a.contains(b) implies
\* a.intersection(b).equals(b).
C4_ContainsImpliesIntersectionEqualsValid ==
    (/\ method = "intersection"
     /\ other.tag = "Extent"
     /\ (other.ext = EmptyExtent \/ IsValidExtent(other.ext))
     /\ contains(this, other)) =>
        result.tag = "Extent" /\ equals(result.ext, other)

C4_Witness ==
    /\ method = "intersection"
    /\ other.tag = "Extent"
    /\ this.min = <<0, 0>>
    /\ this.max = <<2, 2>>
    /\ other.ext.min = <<1, 1>>
    /\ other.ext.max = <<2, 1>>
    /\ contains(this, other)
    /\ result.tag = "Extent"
    /\ result.ext = other.ext

\* C5 as stated: for all extents a and b, whether or not they overlap,
\* a.intersection(b).area() <= min(a.area(), b.area()).
C5_IntersectionAreaIsSmaller ==
    (method = "intersection" /\ other.tag = "Extent") =>
        /\ result.tag = "Extent"
        /\ Le(area(result.ext), MathMin(area(this), area(other.ext)))

\* C5 amended: for all extents a and b with a.intersects(b),
\* a.intersection(b).area() <= min(a.area(), b.area()); when they do not
\* intersect the intersection is the empty extent, whose area is Infinity.
C5_IntersectionAreaIsSmallerWhenIntersecting ==
    (method = "intersection" /\ other.tag = "Extent") =>
        /\ result.tag = "Extent"
        /\ intersects(this, other) =>
               Le(area(result.ext), MathMin(area(this), area(other.ext)))
        /\ ~intersects(this, other) =>
               result.ext = EmptyExtent /\ area(result.ext) = Infinity

C5_Witness ==
    /\ method = "intersection"
    /\ other.tag = "Extent"
    /\ this.min = <<0, 0>>
    /\ this.max = <<2, 2>>
    /\ other.ext.min = <<1, 0>>
    /\ other.ext.max = <<2, 1>>
    /\ area(result.ext) = 1
    /\ area(this) = 4

\* C6: no Extent operation fails with an exception: equals, extend, contains,
\* intersects, intersection and percentContainedIn return a result for every
\* argument that is an Extent, a single point or a malformed value.
C6_NoExtentMethodThrows ==
    method \in {"equals", "extend", "contains", "intersects", "intersection",
                "percentContainedIn"} => result.tag # "TypeError"

\* C9: a.percentContainedIn(b) is 0 when the area of a.intersection(b) or the
\* area of a is 0 or infinite (in particular whenever a and b do not
\* intersect), and otherwise is area(a.intersection(b)) / area(a); for every
\* a with min <= max componentwise it lies in [0, 1].
C9_PercentContainedIn ==
    method = "percentContainedIn" =>
        LET b == JsExtent(AsExtent(other))
            a1 == area(intersection(this, b).ext)
            a2 == area(this)
            zero == result.num = 0 /\ result.den = 1
        IN  /\ result.tag = "number"
            /\ ~intersects(this, b) => zero
            /\ (a1 \in {0, Infinity} \/ a2 \in {0, Infinity}) <=> zero
            /\ ~zero => /\ result.num = a1 /\ result.den = a2
                        /\ IsFinite(a1) /\ IsFinite(a2)
            /\ IsValidExtent(this) => 0 <= result.num /\ result.num <= result.den

C9_Witness ==
    /\ method = "percentContainedIn"
    /\ other.tag = "Extent"
    /\ this.min = <<0, 0>>
    /\ this.max = <<2, 2>>
    /\ other.ext.min = <<1, 0>>
    /\ other.ext.max = <<2, 1>>
    /\ result.num = 1
    /\ result.den = 4

----------------------------------------------------------------------------
(* Properties of Viewport *)

ScaleInBounds(k) == Le(MIN_K, k) /\ Le(k, MAX_K)
RotationNormalized(r) == Le(0, r) /\ ~IsNaN(r) /\ r < TAU

\* C1 as stated: after construction with any transform object or none, and
\* any sequence of translate, scale, rotate, transform and dimensions calls
\* with any numeric arguments, MIN_K <= k <= MAX_K and 0 <= r < 2 pi.
C1_ScaleAndRotationConstrained ==
    call.op # "none" =>
        ScaleInBounds(_transform.k) /\ RotationNormalized(_transform.r)

\* C1 amended: the same, provided no NaN was passed as the scale to scale or
\* transform, no NaN or infinite value as the rotation to rotate or
\* transform, and no infinite rotation to the constructor.
C1_ScaleAndRotationConstrainedUnlessPoisoned ==
    (call.op # "none" /\ ~poisoned) =>
        ScaleInBounds(_transform.k) /\ RotationNormalized(_transform.r)

C1_Witness ==
    /\ call.op = "transform"
    /\ call.arg.t.k = MAX_K + 5
    /\ call.arg.t.r = 0 - HALF_PI
    /\ _transform.k = MAX_K
    /\ _transform.r = 3 * HALF_PI
    /\ ~poisoned

InMercatorRange(loc) ==
    /\ Le(MIN_PHI, Mul(loc[2], DEG2RAD))
    /\ Le(Mul(loc[2], DEG2RAD), MAX_PHI)

IsValidTransform(T) ==
    /\ IsFinite(T.x)
    /\ IsFinite(T.y)
    /\ ScaleInBounds(T.k)
    /\ RotationNormalized(T.r)

IsFiniteRectangle(e) ==
    /\ IsFinite(e.min[1]) /\ IsFinite(e.min[2])
    /\ IsFinite(e.max[1]) /\ IsFinite(e.max[2])

\* C2: for every point p whose latitude is within the Mercator range, every
\* valid transform and dimension rectangle, unproject(project(p, rot), rot)
\* is p, with rot false and with rot true (equal at the resolution of the
\* model, one unit).
C2_UnprojectInvertsProject ==
    (/\ call.op = "unproject"
     /\ call.roundTrip
     /\ InMercatorRange(call.loc)
     /\ IsValidTransform(_transform)
     /\ IsFiniteRectangle(_dimensions)) =>
        ret.vec = call.loc

C2_Witness ==
    /\ call.op = "unproject"
    /\ call.roundTrip
    /\ call.includeRotation
    /\ call.loc = <<10, 25>>
    /\ _transform = [x |-> 90, y |-> -40, k |-> 3, r |-> HALF_PI]
    /\ _dimensions.max = <<400, 200>>
    /\ call.arg.vec # project(_transform, _dimensions, call.loc, FALSE)
    /\ ret.vec = call.loc

\* C7: new Viewport(t) holds what new Viewport().transform(t) holds, for every
\* transform object t: each provided field as its setter stores it, the
\* default only for a missing field, also when a provided field is 0.
C7_ConstructorStoresWhatSettersStore ==
    call.op = "new" =>
        _transform = transform(NewViewport(NoObject, JsUndefined).transform, call.arg).transform

\* C8: translate(), scale(), rotate(), transform() and dimensions() without
\* an argument return the values held and leave the transform and the
\* dimensions as they were; what transform() returns is a copy, so a write to
\* it leaves the Viewport's transform as it was.
C8_GettersReturnStateAndLeaveIt ==
    [][/\ (call'.arg.tag = "undefined" /\ call'.op \in {"translate", "scale", "rotate",
                                                        "transform", "dimensions"}) =>
             /\ _transform' = _transform
             /\ _dimensions' = _dimensions
             /\ call'.op = "translate" =>
                    ret'.tag = "Vec2" /\ ret'.vec = <<_transform.x, _transform.y>>
             /\ call'.op = "scale" => ret'.tag = "number" /\ ret'.num = _transform.k
             /\ call'.op = "rotate" => ret'.tag = "number" /\ ret'.num = _transform.r
             /\ call'.op = "transform" => ret'.tag = "Transform" /\ ret'.t = _transform
             /\ call'.op = "dimensions" => ret'.tag = "corners" /\ ret'.ext = _dimensions
       /\ call'.op = "write" =>
             /\ ret'.t # ret.t
             /\ _transform' = _transform
             /\ transform(_transform', NoArgument).ret.t = _transform
      ]_vars

C8_Witness ==
    /\ call.op = "write"
    /\ ret.tag = "Transform"
    /\ ret.t.k = 1
    /\ _transform.k = MAX_K
    /\ _transform.x = 90

\* the four corners of the dimension rectangle
Corners(D) ==
    {<<D.min[1], D.min[2]>>, <<D.min[1], D.max[2]>>,
     <<D.max[1], D.max[2]>>, <<D.max[1], D.min[2]>>}

\* e is the smallest extent containing the points pts: each bound of e is a
\* coordinate of one of the points and bounds the same coordinate of them all
IsSmallestExtentOf(e, pts) ==
    \A i \in {1, 2} :
        /\ \E p \in pts : StrictEq(e.min[i], p[i])
        /\ \E p \in pts : StrictEq(e.max[i], p[i])
        /\ \A p \in pts : Le(e.min[i], p[i]) /\ Le(p[i], e.max[i])

\* what extent() is stated to do, in a step that calls it
ExtentCoversUnprojectedCorners ==
    LET pts == {unproject(_transform, _dimensions, c, TRUE) : c \in Corners(_dimensions)}
    IN  /\ ret'.tag = "Extent"
        /\ IsSmallestExtentOf(ret'.ext, pts)
        /\ IsValidExtent(ret'.ext)

\* C12 as stated: extent() returns the smallest extent containing
\* unproject(c, true) for each of the four corners c of the dimension
\* rectangle; the result has min <= max componentwise, and the call leaves
\* the transform and the dimensions as they were.
C12_ExtentIsSmallestOfUnprojectedCorners ==
    [][call'.op = "extent" =>
          /\ ExtentCoversUnprojectedCorners
          /\ _transform' = _transform
          /\ _dimensions' = _dimensions
      ]_vars

\* C12 amended: the same, provided x and y are finite, k is not NaN and the
\* corners of the dimension rectangle are finite; the call leaves the
\* transform and the dimensions as they were in every case.
C12_ExtentIsSmallestOfUnprojectedCornersWhenFinite ==
    [][call'.op = "extent" =>
          /\ (/\ IsFinite(_transform.x) /\ IsFinite(_transform.y)
               /\ ~IsNaN(_transform.k)
               /\ IsFiniteRectangle(_dimensions)) => ExtentCoversUnprojectedCorners
          /\ _transform' = _transform
          /\ _dimensions' = _dimensions
      ]_vars

\* a quarter-turn rotation: the rotated corners give another extent than the
\* corners themselves
C12_Witness ==
    /\ call.op = "extent"
    /\ _transform = [x |-> 90, y |-> -40, k |-> 3, r |-> HALF_PI]
    /\ _dimensions = [min |-> <<0, 0>>, max |-> <<400, 200>>]
    /\ ret.ext = [min |-> <<2, -49>>, max |-> <<35, 10>>]
    /\ unproject(_transform, _dimensions, <<0, 0>>, FALSE) = <<-15, -6>>

\* C13: each setter changes only its own part of the state and returns the
\* same Viewport: translate(v) changes only x and y, scale(v) only k,
\* rotate(v) only r, transform(obj) the fields among x, y, k, r that obj
\* defines (each to what its own setter stores) and no other, dimensions(val)
\* only the dimension rectangle; no transform setter changes the dimensions.
C13_SettersChangeOnlyTheirPart ==
    [][(/\ call'.op \in {"translate", "scale", "rotate", "transform", "dimensions"}
        /\ call'.arg.tag # "undefined") =>
          LET T == _transform
              T2 == _transform'
              arg == call'.arg
          IN  /\ ret'.tag = "this"
              /\ call'.op # "dimensions" => _dimensions' = _dimensions
              /\ call'.op = "translate" =>
                    /\ T2 = [T EXCEPT !.x = T2.x, !.y = T2.y]
                    /\ T2.x = ToNumber(arg.vec[1]) /\ T2.y = ToNumber(arg.vec[2])
              /\ call'.op = "scale" => T2 = [T EXCEPT !.k = T2.k]
              /\ call'.op = "rotate" => T2 = [T EXCEPT !.r = T2.r]
              /\ call'.op = "transform" =>
                    /\ \A f \in {"x", "y", "k", "r"} : arg.t[f] = undefined => T2[f] = T[f]
                    /\ arg.t.x # undefined => T2.x = ToNumber(arg.t.x)
                    /\ arg.t.y # undefined => T2.y = ToNumber(arg.t.y)
                    /\ arg.t.k # undefined => T2.k = scale(T, ArgNum(arg.t.k)).transform.k
                    /\ arg.t.r # undefined => T2.r = rotate(T, ArgNum(arg.t.r)).transform.r
              /\ call'.op = "dimensions" =>
                    /\ T2 = T
                    /\ _dimensions'.min = arg.ext.min
                    /\ _dimensions'.max = arg.ext.max
      ]_vars

\* transform({ y: -40 }) on a Viewport whose x, k and r are not the defaults
C13_Witness ==
    /\ call.op = "transform"
    /\ call.arg.t = [NoObject EXCEPT !.y = -40]
    /\ ret.tag = "this"
    /\ _transform = [x |-> 0, y |-> -40, k |-> MAX_K, r |-> 3 * HALF_PI]
    /\ _dimensions = [min |-> <<-100, -60>>, max |-> <<100, 60>>]

----------------------------------------------------------------------------
(* Properties of the polygon predicates *)

SomeVertexInside ==
    \E i \in 1..Len(inner) : pointInPolygon(inner[i], outer)

SomeEdgesCross ==
    \E i \in 1..(Len(outer) - 1), j \in 1..(Len(inner) - 1) :
        ~lineIntersection(<<outer[i], outer[i + 1]>>, <<inner[j], inner[j + 1]>>).null

\* C10: in lax mode polygonIntersectsPolygon(outer, inner) is true iff some
\* vertex of inner is inside outer; in strict mode iff the lax result is true
\* or some edge of inner crosses some edge of outer.  So a true lax result
\* implies a true strict one, and the modes differ exactly on the polygons
\* with no vertex inside outer and an edge crossing it.
C10_LaxAndStrictIntersection ==
    geomCall.fn = "polygonIntersectsPolygon" =>
        LET lax == polygonIntersectsPolygon(outer, inner, FALSE)
            strict == polygonIntersectsPolygon(outer, inner, TRUE)
        IN  /\ ~geomCall.strict => (geomRet <=> SomeVertexInside)
            /\ geomCall.strict => (geomRet <=> (SomeVertexInside \/ SomeEdgesCross))
            /\ lax => strict
            /\ (lax # strict) <=> (~SomeVertexInside /\ SomeEdgesCross)

\* the strict test of the pass-through polygon: no vertex inside, edges crossing
C10_Witness ==
    /\ geomCall.fn = "polygonIntersectsPolygon"
    /\ geomCall.strict
    /\ outer = TestSquare
    /\ inner = TestPassThrough
    /\ geomRet
    /\ ~polygonIntersectsPolygon(outer, inner, FALSE)

\* the segments have the same direction, or one of them has no length
Parallel(a, b) ==
    (a[2][1] - a[1][1]) * (b[2][2] - b[1][2]) = (a[2][2] - a[1][2]) * (b[2][1] - b[1][1])

\* on which side of the line through seg[1] and seg[2] the point pt lies
Side(seg, pt) ==
    Sign((seg[2][1] - seg[1][1]) * (pt[2] - seg[1][2])
           - (seg[2][2] - seg[1][2]) * (pt[1] - seg[1][1]))

\* the end points of seg are not strictly on the same side of the line of `line`:
\* the crossing point of the two lines lies on seg
CrossingWithin(seg, line) == Side(line, seg[1]) * Side(line, seg[2]) <= 0

\* the point (pt.x / pt.den, pt.y / pt.den) lies on the segment seg
OnSegment(pt, seg) ==
    LET d == IF pt.den < 0 THEN 0 - pt.den ELSE pt.den
        x == IF pt.den < 0 THEN 0 - pt.x ELSE pt.x
        y == IF pt.den < 0 THEN 0 - pt.y ELSE pt.y
        lo(u, w) == IF u < w THEN u ELSE w
        hi(u, w) == IF u < w THEN w ELSE u
    IN  /\ (seg[2][1] - seg[1][1]) * (y - seg[1][2] * d)
              = (seg[2][2] - seg[1][2]) * (x - seg[1][1] * d)
        /\ lo(seg[1][1], seg[2][1]) * d <= x /\ x <= hi(seg[1][1], seg[2][1]) * d
        /\ lo(seg[1][2], seg[2][2]) * d <= y /\ y <= hi(seg[1][2], seg[2][2]) * d

\* C11: lineIntersection(a, b) is null when the segments are parallel (on one
\* line or not, overlapping or not) and when the crossing point of their
\* lines is outside one of the segments; otherwise it is a point, and that
\* point lies on both segments.
C11_LineIntersection ==
    geomCall.fn = "lineIntersection" =>
        LET a == outer
            b == inner
            crossing == ~Parallel(a, b) /\ CrossingWithin(a, b) /\ CrossingWithin(b, a)
        IN  /\ Parallel(a, b) => geomRet.null
            /\ geomRet.null <=> ~crossing
            /\ ~geomRet.null => OnSegment(geomRet, a) /\ OnSegment(geomRet, b)

\* the test that expects [5, 0]
C11_Witness ==
    /\ geomCall.fn = "lineIntersection"
    /\ outer = <<<<0, 0>>, <<10, 0>>>>
    /\ inner = <<<<5, 10>>, <<5, -10>>>>
    /\ ~geomRet.null
    /\ geomRet.x = 5 * geomRet.den
    /\ geomRet.y = 0

=============================================================================
